---- MODULE Spec2Model ----
(***************************************************************************)
(* Model of psfmodels/_cuvec.py: the vectorial PSF pipeline                *)
(*   vectorial_psf_centered -> vectorial_psf -> vectorial_rz (-> simpson,  *)
(*   _simp_like) -> rz_to_xyz (-> radius_map, map_coordinates) -> normalise*)
(*                                                                         *)
(* Number representation (all exact integer arithmetic):                   *)
(*   - refractive indices na, ni, ns, ...: integers (the RI itself);       *)
(*   - angles: multiples of pi/6 ("sixths"); arcsin is tabulated on the    *)
(*     ratios 0, +-1/2, +-1 and is NaN for |ratio| > 1;                    *)
(*   - lateral positions and offsets: half pixels (posH = 2 * pos / dxy);  *)
(*   - z positions: half micrometres before the unit conversion of line    *)
(*     249, nanometres after it;                                           *)
(*   - radius_map cells hold 4 * distance^2 (the square of the distance in *)
(*     half pixels), so that hypot needs no irrational number;             *)
(*   - intensities: naturals, or NaN; the value of the diffraction         *)
(*     integral itself is not computable here and is stood for by Mag, a   *)
(*     positive radially decreasing table; every NaN the code can produce  *)
(*     (0/0 in the Bessel recurrence, sqrt of a negative real) is tracked. *)
(* Arrays keep the code's 0-based indices: they are functions on 0..n-1.   *)
(***************************************************************************)
EXTENDS Integers, Sequences, FiniteSets, TLC

VARIABLES pc, call, args, err, zv, zvM, nyv, rzN, rmax, constJ, halfAngle,
          nSamples, theta, simp, rz, xyshape, rmap, psf, psfDen

vars == <<pc, call, args, err, zv, zvM, nyv, rzN, rmax, constJ, halfAngle,
          nSamples, theta, simp, rz, xyshape, rmap, psf, psfDen>>

(* ------------------------------ bounds -------------------------------- *)
MaxN == 3
MaxNz == 2
MaxNzC == 4
MaxDz == 2
MaxPz == 1
SfSet == {1, 2, 3}
PosHSet == {<<0, 0>>, <<1, 1>>, <<2, 0>>, <<0, 2>>}
DxySet == {1, 4}
(* <<na, ni>>: NA < ni (twice), NA = ni, NA > ni, ni = 0, ni < 0, NA = 0, NA < 0 *)
Configs == << <<1, 2>>, <<2, 4>>, <<2, 2>>, <<3, 2>>, <<1, 0>>, <<1, -2>>, <<0, 2>>, <<-1, 2>> >>
NsSeq == <<2, 1>>

(* ------------------------------ numbers ------------------------------- *)
NaN == -1
InterpDen == 4
NmPerHalfUm == 500

Abs(a) == IF a < 0 THEN -a ELSE a
Sign(a) == IF a < 0 THEN -1 ELSE IF a = 0 THEN 0 ELSE 1
Maximum(a, b) == IF a >= b THEN a ELSE b
TruncDiv(a, b) == IF a >= 0 THEN a \div b ELSE -((-a) \div b)

RECURSIVE ISqrt(_)
ISqrt(n) ==
  IF n < 2 THEN n
  ELSE LET s == 2 * ISqrt(n \div 4)
       IN IF (s + 1) * (s + 1) <= n THEN s + 1 ELSE s
CeilSqrt(n) == LET s == ISqrt(n) IN IF s * s = n THEN s ELSE s + 1

ArrMax(a) == CHOOSE m \in {a[i] : i \in DOMAIN a} : \A i \in DOMAIN a : a[i] <= m

(* ------------------------------ Objective ------------------------------ *)
(* Objective built from params: fields the caller does not give keep their *)
(* defaults.  In the model's integer RI scale the design glass/oil index   *)
(* 1.515 is 2 and the default NA is 1.                                     *)
DefaultParams == [na |-> 1, ni |-> 2, ns |-> 2, ng |-> 2, ng0 |-> 2, ni0 |-> 2]
Objective(params) ==
  [f \in DOMAIN DefaultParams |->
     IF f \in DOMAIN params THEN params[f] ELSE DefaultParams[f]]

(* np.arcsin(na / ni): a value for |na / ni| <= 1, NaN beyond.  The ratio   *)
(* na / ni itself raises ZeroDivisionError for ni = 0 (see vectorial_rz).  *)
ArcsinDefined(num, den) == Abs(num) <= Abs(den)
ArcsinSixths(num, den) ==
  LET sg == Sign(num) * Sign(den)
  IN CASE num = 0 -> 0
       [] num # 0 /\ Abs(num) = Abs(den) -> 3 * sg
       [] 2 * Abs(num) = Abs(den) -> sg
half_angle(p) == ArcsinSixths(p.na, p.ni)

(* ------------------------------ _simp_like ----------------------------- *)
SimpLikeNoFinal(n) == [i \in 0..(n - 1) |-> IF i % 2 = 0 THEN 4 ELSE 2]
SimpLike(n) ==
  LET even == [i \in 0..(n - 1) |-> IF i % 2 = 0 THEN 4 ELSE 0]      \* simp[::2] = 4
      odd == [i \in 0..(n - 1) |-> IF i % 2 = 1 THEN 2 ELSE even[i]] \* simp[1::2] = 2
  IN [odd EXCEPT ![n - 1] = 1]                                       \* simp[-1] = 1

(* ------------------------------ simpson -------------------------------- *)
(* Sign of the Bessel argument x = constJ[r] * sin(theta[j]); every theta  *)
(* lies in [-pi/2, pi/2], where sin has the sign of theta.                 *)
XSign(cJ, th, r, j) == Sign(cJ[r]) * Sign(th[j])

(* bessel_2 after lines 141-144, entry (r, j): "zero" where the row mask   *)
(* constJ == 0 patched it, "nan" where 2*bessel_1/x - bessel_0 was 0/0 and *)
(* the mask did not reach it, "rec" the recurrence value otherwise.        *)
Bessel2(cJ, th, r, j) ==
  IF cJ[r] = 0 THEN "zero"
  ELSE IF XSign(cJ, th, r, j) = 0 THEN "nan"
  ELSE "rec"

(* xp.sqrt of a real array (lines 116, 117, 123, 124) is NaN where its     *)
(* argument is negative; ni^2 sin^2(theta) peaks at the last sample, where *)
(* it is na^2.                                                             *)
RootNaN(p) ==
  \/ p.ns * p.ns < p.na * p.na
  \/ p.ng * p.ng < p.na * p.na
  \/ p.ng0 * p.ng0 < p.na * p.na
  \/ p.ni0 * p.ni0 < p.na * p.na

(* Stand-in for the finite value of sum_I0^2 + 2 sum_I1^2 + sum_I2^2:      *)
(* positive, largest on the axis, one more in the focal plane.             *)
Mag(zM, nr, z, r) == 2 * (nr - r) + (IF zM[z] = 0 THEN 1 ELSE 0)

(* simpson(...) scaled by 8 pi / 3 * (step / ud)^2 (line 187): NaN where a *)
(* NaN entered the sum over theta, 0 where step = 0, positive otherwise.   *)
Simpson(p, th, cJ, zM) ==
  [z \in DOMAIN zM |->
    [r \in DOMAIN cJ |->
       IF RootNaN(p) \/ \E j \in DOMAIN th : Bessel2(cJ, th, r, j) = "nan"
       THEN NaN
       ELSE IF \A j \in DOMAIN th : th[j] = 0 THEN 0
       ELSE Mag(zM, Cardinality(DOMAIN cJ), z, r)]]

(* --------------------------- vectorial_rz ------------------------------ *)
XyMax(nx, sf) == (nx * sf - 1) \div 2
Rn(posH, sf) == 1 + ISqrt((sf * sf * (posH[1] * posH[1] + posH[2] * posH[2])) \div 4)
RMax(nx, posH, sf) == CeilSqrt(2 * XyMax(nx, sf) * XyMax(nx, sf)) + Rn(posH, sf) + 1
(* constJ = wave_num * rvec * ni, in units of 2 pi / (sf * wvl) *)
ConstJ(nr, dxy, ni) == [i \in 0..(nr - 1) |-> ni * i * dxy]
(* 4 * int(1.0 + half_angle * max(constJ) / pi), then the floor of 60 *)
NSamples(h, cJ, sf, wvl) ==
  Maximum(4 * TruncDiv(3 * sf * wvl + h * ArrMax(cJ), 3 * sf * wvl), 60)
(* theta = arange(1, nSamples + 1) * step, in units of pi / (6 nSamples) *)
Theta(n, h) == [j \in 0..(n - 1) |-> (j + 1) * h]

(* ---------------------------- radius_map ------------------------------- *)
(* off is <<offy, offx>> in half pixels; a cell holds 4 * hypot(yi, xi)^2. *)
RadiusMap(shape, off) ==
  LET ny == shape[1]
      nx == shape[2]
      offy == off[1]
      offx == off[2]
  IN [y \in 0..(ny - 1) |-> [x \in 0..(nx - 1) |->
        LET yi == 2 * y - (ny - 1) - offy
            xi == 2 * x - (nx - 1) - offx
        IN yi * yi + xi * xi]]

(* ----------------------------- rz_to_xyz ------------------------------- *)
(* The looked-up coordinate sf * radius lies within the table [0, nr - 1] *)
InRange(r2, sf, nr) == sf * sf * r2 <= 4 * (nr - 1) * (nr - 1)

(* map_coordinates(..., order=1) at radial coordinate sf * sqrt(r2) / 2,   *)
(* in units of 1 / InterpDen.  policy is the provider's treatment of       *)
(* coordinates beyond the last sample (mode="constant", cval=0): "cval"    *)
(* returns cval, "lerp" interpolates towards cval.                         *)
Lerp(row, r2, sf, policy) ==
  LET nr == Cardinality(DOMAIN row)
      cQ == ISqrt((InterpDen * InterpDen * sf * sf * r2) \div 4)
      i == cQ \div InterpDen
      f == cQ % InterpDen
      hi == IF i + 1 <= nr - 1 THEN row[i + 1] ELSE 0
  IN IF InRange(r2, sf, nr) \/ (policy = "lerp" /\ i = nr - 1)
     THEN IF row[i] = NaN \/ hi = NaN THEN NaN
          ELSE (InterpDen - f) * row[i] + f * hi
     ELSE 0

RzToXyzSwapped(prof, shape, sf, rm, policy) ==
  [z \in DOMAIN prof |-> [y \in 0..(shape[2] - 1) |-> [x \in 0..(shape[1] - 1) |->
     Lerp(prof[z], rm[y % shape[1]][x % shape[2]], sf, policy)]]]
RzToXyz(prof, shape, sf, rm, policy) ==
  [z \in DOMAIN prof |-> [y \in 0..(shape[1] - 1) |-> [x \in 0..(shape[2] - 1) |->
     Lerp(prof[z], rm[y][x], sf, policy)]]]

(* ------------------------------ linspace ------------------------------- *)
(* np.linspace(start, stop, num): arange(num) * step + start with the last *)
(* sample set to stop; a single sample is start.                           *)
Linspace(start, stop, num) ==
  LET div == num - 1
      step == IF div > 0 THEN (stop - start) \div div ELSE 0
  IN [i \in 0..(num - 1) |->
        IF num > 1 /\ i = num - 1 THEN stop ELSE i * step + start]

(* _centered_zv(nz, dz, pz), in half micrometres: lim = (nz - 1) dz / 2 *)
CenteredZvNoPz(nz, dz, pz) == Linspace(-((nz - 1) * dz), (nz - 1) * dz, nz)
CenteredZv(nz, dz, pz) ==
  LET lim2 == (nz - 1) * dz
  IN Linspace(-lim2 + 2 * pz, lim2 + 2 * pz, nz)

(* zv * 1e-6 (line 249): half micrometres to nanometres of a metre value *)
ToMeters(z) == [i \in DOMAIN z |-> z[i] * NmPerHalfUm]

(* ------------------------------ xp.max --------------------------------- *)
VolValues(v) ==
  UNION {UNION {{v[z][y][x] : x \in DOMAIN v[z][y]} : y \in DOMAIN v[z]} : z \in DOMAIN v}
(* xp.max propagates NaN *)
VolMax(v) ==
  IF NaN \in VolValues(v) THEN NaN
  ELSE CHOOSE m \in VolValues(v) : \A w \in VolValues(v) : w <= m

(* ------------------------------- state --------------------------------- *)
(* pc: where the call stands; call: the entry point; args: its arguments   *)
(* (ny = 0 is ny=None, hasPz: the keyword pz was given, offNone: off=None); *)
(* the other variables are the locals of the functions on the call stack.  *)
DefaultArgs ==
  [nz |-> 0, dz |-> 0, pz |-> 0, hasPz |-> FALSE, nx |-> 0, ny |-> 0,
   posH |-> <<0, 0>>, offNone |-> FALSE, dxy |-> 1, wvl |-> 12,
   params |-> [na |-> 1], sf |-> 3, normalize |-> TRUE]

Init ==
  /\ pc = "idle"
  /\ call = "none"
  /\ args = DefaultArgs
  /\ err = "none"
  /\ zv = <<>>
  /\ zvM = <<>>
  /\ nyv = 0
  /\ rzN = 0
  /\ rmax = 0
  /\ constJ = <<>>
  /\ halfAngle = 0
  /\ nSamples = 0
  /\ theta = <<>>
  /\ simp = <<>>
  /\ rz = <<>>
  /\ xyshape = <<0, 0>>
  /\ rmap = <<>>
  /\ psf = <<>>
  /\ psfDen = 0

(* vectorial_psf, lines 249-251 up to the call of vectorial_rz *)
PsfEntry(a, z) ==
  /\ args' = a
  /\ zv' = z
  /\ zvM' = ToMeters(z)
  /\ nyv' = IF a.ny = 0 THEN a.nx ELSE a.ny
  /\ rzN' = Maximum(nyv', a.nx)
  /\ pc' = "vectorial_rz"
  /\ err' = "none"

VectorialPsf ==
  /\ pc = "idle"
  /\ \E nz \in 1..MaxNz, nx \in 1..MaxN, ny \in 0..MaxN, posH \in PosHSet,
        dxy \in DxySet, k \in DOMAIN Configs, s \in DOMAIN NsSeq, sf \in SfSet,
        normalize \in BOOLEAN :
       PsfEntry([DefaultArgs EXCEPT !.nz = nz, !.nx = nx, !.ny = ny, !.posH = posH,
                   !.dxy = dxy, !.wvl = 1, !.sf = sf, !.normalize = normalize,
                   !.params = [na |-> Configs[k][1], ni |-> Configs[k][2],
                                  ns |-> NsSeq[s]]],
                Linspace(-(nz - 1), nz - 1, nz))
  /\ call' = "vectorial_psf"
  /\ UNCHANGED <<rmax, constJ, halfAngle, nSamples, theta, simp, rz, xyshape,
                 rmap, psf, psfDen>>

(* vectorial_psf_centered: line 268 reads pz and leaves it in kwargs, which *)
(* line 269 hands to vectorial_psf, whose signature has no pz.             *)
VectorialPsfCentered ==
  /\ pc = "idle"
  /\ call' = "vectorial_psf_centered"
  /\ \E nz \in 1..MaxNzC, dz \in 1..MaxDz, hasPz \in BOOLEAN, pz \in (-MaxPz)..MaxPz,
        nx \in 1..2 :
       LET a == [DefaultArgs EXCEPT !.nz = nz, !.dz = dz, !.hasPz = hasPz,
                                    !.pz = pz, !.nx = nx]
           z == CenteredZv(nz, dz, IF hasPz THEN pz ELSE 0)
       IN /\ hasPz \/ pz = 0
          /\ IF hasPz
             THEN /\ args' = a
                  /\ zv' = z
                  /\ pc' = "error"
                  /\ err' = "TypeError"
                  /\ UNCHANGED <<zvM, nyv, rzN>>
             ELSE PsfEntry(a, z)
  /\ UNCHANGED <<rmax, constJ, halfAngle, nSamples, theta, simp, rz, xyshape,
                 rmap, psf, psfDen>>

(* vectorial_rz, with simpson and _simp_like *)
VectorialRz ==
  /\ pc = "vectorial_rz"
  /\ LET p == Objective(args.params)
         nr == RMax(rzN, args.posH, args.sf)
         cJ == ConstJ(nr, args.dxy, p.ni)
     IN /\ rmax' = nr
        /\ constJ' = cJ
        /\ IF p.ni = 0
           THEN /\ pc' = "error"                   \* na / ni, line 72
                /\ err' = "ZeroDivisionError"
                /\ UNCHANGED <<halfAngle, nSamples, theta, simp, rz>>
           ELSE IF ~ArcsinDefined(p.na, p.ni)
           THEN /\ pc' = "error"                   \* int(nan), line 180
                /\ err' = "ValueError"
                /\ UNCHANGED <<halfAngle, nSamples, theta, simp, rz>>
           ELSE /\ halfAngle' = half_angle(p)
                /\ nSamples' = NSamples(halfAngle', cJ, args.sf, args.wvl)
                /\ theta' = Theta(nSamples', halfAngle')
                /\ simp' = SimpLike(nSamples')
                /\ rz' = Simpson(p, theta', cJ, zvM)
                /\ pc' = "rz_to_xyz"
                /\ err' = "none"
  /\ UNCHANGED <<call, args, zv, zvM, nyv, rzN, xyshape, rmap, psf, psfDen>>

(* rz_to_xyz(rz, (ny, nx), sf, off = pos[:2] / (dxy * 1e-6)), line 252; *)
(* radius_map unpacks off as (offy, offx).                              *)
RzToXyzCall ==
  /\ pc = "rz_to_xyz"
  /\ xyshape' = <<nyv, args.nx>>
  /\ rmap' = RadiusMap(xyshape', args.posH)
  /\ \E policy \in {"cval", "lerp"} :
       psf' = RzToXyz(rz, xyshape', args.sf, rmap', policy)
  /\ psfDen' = InterpDen
  /\ pc' = "normalize"
  /\ UNCHANGED <<call, args, err, zv, zvM, nyv, rzN, rmax, constJ, halfAngle,
                 nSamples, theta, simp, rz>>

(* lines 253-255: _psf /= xp.max(_psf); a voxel is psf / psfDen *)
Normalize ==
  /\ pc = "normalize"
  /\ LET m == VolMax(psf)
     IN IF args.normalize
        THEN IF m = NaN \/ m = 0
             THEN /\ psf' = [z \in DOMAIN psf |-> [y \in DOMAIN psf[z] |->
                               [x \in DOMAIN psf[z][y] |-> NaN]]]
                  /\ UNCHANGED psfDen
             ELSE /\ psfDen' = m
                  /\ UNCHANGED psf
        ELSE UNCHANGED <<psf, psfDen>>
  /\ pc' = "done"
  /\ UNCHANGED <<call, args, err, zv, zvM, nyv, rzN, rmax, constJ, halfAngle,
                 nSamples, theta, simp, rz, xyshape, rmap>>

(* radius_map(shape, off) called on its own; with off=None line 202 binds  *)
(* off but not offy, offx, and line 205 reads offy.                        *)
RadiusMapCall ==
  /\ pc = "idle"
  /\ call' = "radius_map"
  /\ \E ny \in 1..MaxN, nx \in 1..MaxN, offNone \in BOOLEAN, off \in PosHSet :
       /\ offNone => off = <<0, 0>>
       /\ args' = [DefaultArgs EXCEPT !.nx = nx, !.ny = ny, !.offNone = offNone,
                                      !.posH = off]
       /\ xyshape' = <<ny, nx>>
       /\ IF offNone
          THEN /\ pc' = "error"
               /\ err' = "UnboundLocalError"
               /\ UNCHANGED rmap
          ELSE /\ rmap' = RadiusMap(<<ny, nx>>, off)
               /\ pc' = "done"
               /\ err' = "none"
  /\ UNCHANGED <<zv, zvM, nyv, rzN, rmax, constJ, halfAngle, nSamples, theta,
                 simp, rz, psf, psfDen>>

Next ==
  \/ VectorialPsf
  \/ VectorialPsfCentered
  \/ RadiusMapCall
  \/ VectorialRz
  \/ RzToXyzCall
  \/ Normalize

Spec == Init /\ [][Next]_vars

(* ------------------------------ claims --------------------------------- *)
PsfCall == call \in {"vectorial_psf", "vectorial_psf_centered"}
AfterRz == PsfCall /\ pc \in {"rz_to_xyz", "normalize", "done"}
AfterXyz == PsfCall /\ pc \in {"normalize", "done"}
NyArg == IF args.ny = 0 THEN args.nx ELSE args.ny
Cells == {c \in (0..MaxN) \X (0..MaxN) : c[1] \in DOMAIN rmap /\ c[2] \in DOMAIN rmap[c[1]]}

(* C1: with normalize=true every voxel of the returned volume is <= 1 and  *)
(* one voxel is exactly 1 (voxel = psf / psfDen); with normalize=false the *)
(* volume is returned unscaled.                                            *)
C1_NormalizedMaxIsOne ==
  (PsfCall /\ pc = "done") =>
     IF args.normalize
     THEN /\ \A v \in VolValues(psf) : v # NaN /\ v <= psfDen
          /\ psfDen \in VolValues(psf)
          /\ psfDen > 0
     ELSE psfDen = InterpDen

(* C2: the returned volume has shape (nz, ny, nx), ny taken as nx when     *)
(* unset; the radial solver got max(nx, ny) and the expander (ny, nx).     *)
C2_Shape ==
  (PsfCall /\ pc = "done") =>
     /\ DOMAIN psf = 0..(args.nz - 1)
     /\ \A z \in DOMAIN psf :
          /\ DOMAIN psf[z] = 0..(NyArg - 1)
          /\ \A y \in DOMAIN psf[z] : DOMAIN psf[z][y] = 0..(args.nx - 1)
     /\ rzN = Maximum(args.nx, NyArg)
     /\ xyshape = <<NyArg, args.nx>>
C2_Witness ==
  /\ PsfCall /\ pc = "done"
  /\ args.nx = 3 /\ args.ny = 2 /\ args.nz = 2

(* the samples of _centered_zv and their symmetry, in half micrometres *)
CenteredFormula ==
  /\ DOMAIN zv = 0..(args.nz - 1)
  /\ \A i \in DOMAIN zv : zv[i] = -((args.nz - 1) * args.dz) + 2 * args.pz + 2 * i * args.dz
  /\ \A i \in DOMAIN zv : zv[i] + zv[args.nz - 1 - i] = 4 * args.pz

(* C3 as stated: the centered z-vector (half micrometres) has nz samples   *)
(* zv[i] = -((nz-1) dz)/2 + pz + i dz, is symmetric about pz, and has a    *)
(* sample exactly at pz at index (nz-1)//2, for odd and for even nz.       *)
C3_Original ==
  (call = "vectorial_psf_centered" /\ pc # "idle") =>
     /\ CenteredFormula
     /\ zv[(args.nz - 1) \div 2] = 2 * args.pz

(* C3 amended: same samples and symmetry; the sample at index (nz-1)//2 is *)
(* pz when nz is odd; when nz is even no sample is at pz: the two central  *)
(* samples, at indices nz/2 - 1 and nz/2, are pz - dz/2 and pz + dz/2.     *)
C3_Amended ==
  (call = "vectorial_psf_centered" /\ pc # "idle") =>
     /\ CenteredFormula
     /\ args.nz % 2 = 1 => zv[(args.nz - 1) \div 2] = 2 * args.pz
     /\ args.nz % 2 = 0 =>
          /\ zv[(args.nz - 1) \div 2] = 2 * args.pz - args.dz
          /\ zv[args.nz \div 2] = 2 * args.pz + args.dz
          /\ \A i \in DOMAIN zv : zv[i] # 2 * args.pz
C3_Witness ==
  /\ call = "vectorial_psf_centered" /\ pc # "idle"
  /\ args.nz = 4 /\ args.pz = 1 /\ args.dz = 2
  /\ zv = [i \in 0..3 |-> 4 * i - 4]

(* C4: a call of vectorial_psf_centered that supplies pz completes without *)
(* error.                                                                  *)
C4_PzAccepted ==
  (call = "vectorial_psf_centered" /\ args.hasPz) => pc # "error"

(* C5: a configuration violating ni > 0 and NA < ni is rejected: it yields *)
(* no sample count and no profile.                                         *)
BadConfig(p) == ~(p.ni > 0 /\ p.na < p.ni)
C5_BadConfigRejected ==
  (PsfCall /\ pc \notin {"idle", "vectorial_rz"} /\ BadConfig(Objective(args.params))) =>
     /\ pc = "error"
     /\ nSamples = 0
     /\ rz = <<>>

(* C6: the zero of the radius map sits at the geometric center displaced   *)
(* by the x component of the position along x and by the y component along *)
(* y (posH = <<x, y>> in half pixels).                                     *)
C6_ShiftFollowsAxis ==
  AfterXyz =>
     \A c \in Cells :
        rmap[c[1]][c[2]] = 0 <=>
           /\ 2 * c[2] - (args.nx - 1) = args.posH[1]
           /\ 2 * c[1] - (NyArg - 1) = args.posH[2]

(* C7: radius_map returns, also with off omitted, the distances to the     *)
(* center displaced by the offset ((0, 0) when omitted).                   *)
C7_RadiusMapAnyOffset ==
  (call = "radius_map" /\ pc # "idle") =>
     /\ pc = "done"
     /\ DOMAIN rmap = 0..(args.ny - 1)
     /\ \A c \in Cells :
          /\ rmap[c[1]][c[2]] =
               (2 * c[1] - (args.ny - 1) - args.posH[1]) * (2 * c[1] - (args.ny - 1) - args.posH[1])
               + (2 * c[2] - (args.nx - 1) - args.posH[2]) * (2 * c[2] - (args.nx - 1) - args.posH[2])
          /\ args.offNone =>
               rmap[c[1]][c[2]] = rmap[args.ny - 1 - c[1]][args.nx - 1 - c[2]]

(* C8: every radial coordinate rz_to_xyz looks up lies within the          *)
(* tabulated range [0, rmax - 1].                                          *)
C8_LookupInRange ==
  AfterXyz => \A c \in Cells : InRange(rmap[c[1]][c[2]], args.sf, rmax)

(* C9: nSamples is even and the weights over theta_j, j = 1..nSamples, are *)
(* 4 for odd j, 2 for even j < nSamples and 1 for j = nSamples; the forced *)
(* final weight replaces a 2, never a 4.                                   *)
C9_SimpsonWeights ==
  AfterRz =>
     /\ nSamples >= 60
     /\ nSamples % 2 = 0
     /\ DOMAIN theta = 0..(nSamples - 1)
     /\ DOMAIN simp = DOMAIN theta
     /\ \A j \in 1..nSamples :
          /\ theta[j - 1] = j * halfAngle
          /\ simp[j - 1] = IF j = nSamples THEN 1 ELSE IF j % 2 = 1 THEN 4 ELSE 2
C9_Witness ==
  /\ AfterRz
  /\ nSamples > 60
  /\ simp[nSamples - 1] = 1 /\ simp[nSamples - 2] = 4 /\ simp[nSamples - 3] = 2

(* C10: bessel_2 is 0 at every entry whose argument x is 0 and the         *)
(* recurrence value at every other entry: no 0/0 survives.                 *)
C10_Bessel2Patched ==
  AfterRz =>
     \A r \in DOMAIN constJ, j \in DOMAIN theta :
        Bessel2(constJ, theta, r, j) =
           IF XSign(constJ, theta, r, j) = 0 THEN "zero" ELSE "rec"

====
